---- MODULE Spec2Model ----
(***************************************************************************)
(* blottertools: the six-stage blotter pipeline (src/src/functions.py),    *)
(* the df_task adapter (src/src/blottertools/decorators.py), the Pipeline  *)
(* driver and PandasExecutor (src/src/blottertools/adapters.py) and the    *)
(* part of BlotterCLI.main that persists the result (src/src/blottercli.py)*)
(*                                                                         *)
(* A DataFrame is a record [cols, idx, rows]: cols the set of column       *)
(* names, idx the sequence of index labels, rows the sequence of rows,     *)
(* each a function from cols to cells.  A cell is <<v>> for a value and    *)
(* <<>> for None/NaN.  Decimals are integers, a quotient of decimals is an *)
(* exact reduced fraction <<n, d>> (the 28-digit rounding is not           *)
(* modelled); a date is its day number, so the next calendar day is d + 1. *)
(***************************************************************************)
EXTENDS Integers, Sequences, FiniteSets, TLC

MaxRows == 3
MaxDate == 3

None == <<>>
Cell(v) == <<v>>
IsNull(c) == Len(c) = 0
Val(c) == c[1]

(* Code-point order of the strings that occur as cell values.              *)
Lex == << "A", "B", "Information Technology", "Materials", "Technology",
          "X", "Y", "a", "b",
          "ticker_0", "ticker_1", "ticker_2", "ticker_3", "ticker_4" >>
Ord(s) == CHOOSE i \in DOMAIN Lex : Lex[i] = s

(* f"ticker_{i}" for a row_index i.                                        *)
TickerName(i) == Lex[9 + i + 1]

(* read_csv builds the sector categories sorted; rename_categories keeps   *)
(* the renamed category at the position of the old one, and the ordered    *)
(* categorical compares by position.                                       *)
CatOrd(s) == IF s = "Information Technology" THEN Ord("Technology") ELSE Ord(s)

(* series.min() of strings, and of an ordered categorical.                 *)
MinStr(S) == CHOOSE x \in S : \A y \in S : Ord(x) <= Ord(y)
MinCat(S) == CHOOSE x \in S : \A y \in S : CatOrd(x) <= CatOrd(y)

Min(S) == CHOOSE x \in S : \A y \in S : x <= y

RECURSIVE SumSeq(_)
SumSeq(s) == IF s = <<>> THEN 0 ELSE Head(s) + SumSeq(Tail(s))

RECURSIVE GCD(_, _)
GCD(a, b) == IF b = 0 THEN a ELSE GCD(b, a % b)

(* A reduced fraction with a positive denominator.                         *)
Frac(n, d) ==
    LET s == IF d < 0 THEN -1 ELSE 1
        a == IF n < 0 THEN -n ELSE n
        g == GCD(a, s * d)
    IN  << (s * n) \div g, (s * d) \div g >>
FracAdd(p, q) == Frac(p[1] * q[2] + q[1] * p[2], p[2] * q[2])

RECURSIVE FracSum(_)
FracSum(s) == IF s = <<>> THEN <<0, 1>> ELSE FracAdd(Head(s), FracSum(Tail(s)))

(* The increasing sequence of the elements of a finite set of integers.    *)
RECURSIVE SortedSeq(_)
SortedSeq(S) == IF S = {} THEN <<>> ELSE <<Min(S)>> \o SortedSeq(S \ {Min(S)})

(***************************************************************************)
(* DataFrame operations                                                    *)
(***************************************************************************)
NRows(df) == Len(df.rows)
Pos(df) == 1..Len(df.rows)
RangeIndex(n) == [i \in 1..n |-> i - 1]
Column(df, c) == [i \in Pos(df) |-> df.rows[i][c]]

(* _df[c] = v                                                              *)
SetColumn(df, c, cell) ==
    [df EXCEPT !.cols = @ \cup {c},
               !.rows = [i \in Pos(df) |->
                           [k \in df.cols \cup {c} |->
                              IF k = c THEN cell ELSE df.rows[i][k]]]]

(* _df[c] = series, positionally                                           *)
AssignColumn(df, c, cells) ==
    [df EXCEPT !.cols = @ \cup {c},
               !.rows = [i \in Pos(df) |->
                           [k \in df.cols \cup {c} |->
                              IF k = c THEN cells[i] ELSE df.rows[i][k]]]]

(* reset_index(drop=False, inplace=True): the index becomes the column     *)
(* "index" and a fresh RangeIndex takes its place.                         *)
reset_index(df) ==
    [cols |-> df.cols \cup {"index"},
     idx  |-> RangeIndex(NRows(df)),
     rows |-> [i \in Pos(df) |->
                 [k \in df.cols \cup {"index"} |->
                    IF k = "index" THEN Cell(df.idx[i]) ELSE df.rows[i][k]]]]

(* set_index(c, drop=True): column c becomes the index.                    *)
set_index(df, c) ==
    [cols |-> df.cols \ {c},
     idx  |-> [i \in Pos(df) |-> Val(df.rows[i][c])],
     rows |-> [i \in Pos(df) |-> [k \in df.cols \ {c} |-> df.rows[i][k]]]]

(* The rows at the positions of P, in dataset order, labels kept.          *)
Take(df, P) ==
    LET ps == SortedSeq(P)
    IN  [cols |-> df.cols,
         idx  |-> [j \in 1..Len(ps) |-> df.idx[ps[j]]],
         rows |-> [j \in 1..Len(ps) |-> df.rows[ps[j]]]]

(* An inner merge in place of update: only the rows of self that other     *)
(* has a row for are kept.                                                 *)
update_inner(df, other) ==
    LET shared == df.cols \cap other.cols
        Hit(i) == {j \in Pos(other) : other.idx[j] = df.idx[i]}
        m == [df EXCEPT !.rows =
                [i \in Pos(df) |->
                   IF Hit(i) = {} THEN df.rows[i]
                   ELSE LET j == CHOOSE j \in Hit(i) : TRUE
                        IN  [k \in df.cols |->
                               IF k \in shared /\ ~IsNull(other.rows[j][k])
                               THEN other.rows[j][k] ELSE df.rows[i][k]]]]
    IN  Take(m, {i \in Pos(df) : Hit(i) # {}})

(* DataFrame.update(other): align other on self's index labels, and for    *)
(* every shared column overwrite self's cell by other's non-null cell.     *)
update(df, other) ==
    LET shared == df.cols \cap other.cols
        Hit(i) == {j \in Pos(other) : other.idx[j] = df.idx[i]}
    IN  [df EXCEPT !.rows =
           [i \in Pos(df) |->
              IF Hit(i) = {} THEN df.rows[i]
              ELSE LET j == CHOOSE j \in Hit(i) : TRUE
                   IN  [k \in df.cols |->
                          IF k \in shared /\ ~IsNull(other.rows[j][k])
                          THEN other.rows[j][k] ELSE df.rows[i][k]]]]

(* dropna(inplace=True): the positions of the rows that keep, those with   *)
(* no null cell.                                                           *)
NotNullPos(df) == {i \in Pos(df) : \A k \in df.cols : ~IsNull(df.rows[i][k])}

(* groupby(by): rows with equal values in the columns by form a group;     *)
(* the groups come in ascending key order (sort=True), each keeps dataset  *)
(* order and its rows' index labels.  Only observed keys form groups.      *)
KeyOf(df, i, by) == [n \in DOMAIN by |-> Val(df.rows[i][by[n]])]
Rank(c, v) == IF c \in {"date", "index"} THEN v ELSE Ord(v)

RECURSIVE KeyLess(_, _, _)
KeyLess(by, k1, k2) ==
    IF by = <<>> THEN FALSE
    ELSE LET a == Rank(Head(by), Head(k1))
             b == Rank(Head(by), Head(k2))
         IN  a < b \/ (a = b /\ KeyLess(Tail(by), Tail(k1), Tail(k2)))

RECURSIVE SortKeys(_, _)
SortKeys(by, K) ==
    IF K = {} THEN <<>>
    ELSE LET m == CHOOSE k \in K : \A o \in K \ {k} : KeyLess(by, k, o)
         IN  <<m>> \o SortKeys(by, K \ {m})

GroupKeys(df, by) == SortKeys(by, {KeyOf(df, i, by) : i \in Pos(df)})

RECURSIVE GroupsOf(_, _, _)
GroupsOf(df, by, ks) ==
    IF ks = <<>> THEN <<>>
    ELSE <<Take(df, {i \in Pos(df) : KeyOf(df, i, by) = Head(ks)})>>
         \o GroupsOf(df, by, Tail(ks))

groupby(df, by) == GroupsOf(df, by, GroupKeys(df, by))

(* Aggregations of one column over a group.                                *)
Values(g, c) == {Val(g.rows[i][c]) : i \in {j \in Pos(g) : ~IsNull(g.rows[j][c])}}
first_alphabetical(g, c) ==
    IF c = "sector" THEN MinCat(Values(g, c))
    ELSE IF c = "index" THEN Min(Values(g, c))
    ELSE MinStr(Values(g, c))

(* "sum" skips null cells.                                                 *)
NonNull(g, c) == SelectSeq(Column(g, c), LAMBDA x : ~IsNull(x))
agg_sum(g, c) == SumSeq([i \in DOMAIN NonNull(g, c) |-> Val(NonNull(g, c)[i])])
agg_frac_sum(g, c) == FracSum([i \in DOMAIN NonNull(g, c) |-> Val(NonNull(g, c)[i])])

(* group.index[0]: the index label of the group's first row.               *)
get_first_index_label(g) == g.idx[1]

(***************************************************************************)
(* Stages 1 to 3                                                           *)
(***************************************************************************)
step1_create_pk(_df) == reset_index(_df)

rename_categories(s) == IF s = "Technology" THEN "Information Technology" ELSE s

step2_sector_pal_date(_df) ==
    [_df EXCEPT !.rows =
       [i \in Pos(_df) |->
          [_df.rows[i] EXCEPT !["sector"] = Cell(rename_categories(Val(@)))]]]

impute_ticker_symbol(_row) == TickerName(Val(_row["index"]))

step3_impute_ticker(_df) ==
    IF "ticker" \notin _df.cols
    THEN AssignColumn(_df, "ticker",
                      [i \in Pos(_df) |-> Cell(impute_ticker_symbol(_df.rows[i]))])
    ELSE _df

(***************************************************************************)
(* Stage 4                                                                 *)
(***************************************************************************)
(* groupby("date", as_index=True).agg(...): one row per date of the        *)
(* partition, indexed by the date, dates ascending.                        *)
collapse_by_date(g) ==
    LET by == <<"date">>
        ds == groupby(g, by)
    IN  [cols |-> {"index", "analyst", "sector", "pal", "exposure"},
         idx  |-> [n \in DOMAIN ds |-> Val(ds[n].rows[1]["date"])],
         rows |-> [n \in DOMAIN ds |->
                     [index    |-> Cell(first_alphabetical(ds[n], "index")),
                      analyst  |-> Cell(first_alphabetical(ds[n], "analyst")),
                      sector   |-> Cell(first_alphabetical(ds[n], "sector")),
                      pal      |-> Cell(agg_sum(ds[n], "pal")),
                      exposure |-> Cell(agg_sum(ds[n], "exposure"))]]]

(* series.shift(-1): the values move up one row, whatever the dates.       *)
shift_rows(df, c) ==
    [i \in Pos(df) |-> IF i < NRows(df) THEN df.rows[i + 1][c] ELSE None]

(* series.shift(-1, "D"): the index moves back one day, the values stay;   *)
(* assigned as a column the result aligns on the date, so the date d gets  *)
(* the value of the date d + 1, and null when the frame has no such date.  *)
shift_day(df, c) ==
    [i \in Pos(df) |->
       LET nxt == {j \in Pos(df) : df.idx[j] = df.idx[i] + 1}
       IN  IF nxt = {} THEN None ELSE df.rows[CHOOSE j \in nxt : TRUE][c]]

(* row["open_liq"] = row["exposure"] + row["pal"]                          *)
impute_adding_pal(row) ==
    [row EXCEPT !["open_liq"] = Cell(Val(row["exposure"]) + Val(row["pal"]))]

impute_first_day_open_liq(row) ==
    [row EXCEPT !["open_liq"] = Cell(Val(row["exposure"]) - Val(row["pal"]))]

(* The body of the loop for one (lkid, ticker) partition, up to the frame  *)
(* handed to _df.update.                                                   *)
lkid_ticker_df(g) ==
    LET c  == collapse_by_date(g)
        s  == AssignColumn(c, "open_liq", shift_day(c, "exposure"))
        im == [s EXCEPT !.rows =
                 [i \in Pos(s) |->
                    IF IsNull(s.rows[i]["open_liq"])
                    THEN impute_first_day_open_liq(s.rows[i]) ELSE s.rows[i]]]
    IN  set_index(im, "index")

RECURSIVE step4_loop(_, _)
step4_loop(_df, groups) ==
    IF groups = <<>> THEN _df
    ELSE step4_loop(update(_df, lkid_ticker_df(Head(groups))), Tail(groups))

(* ex is the frame the executor holds when the stage is not handed the     *)
(* executor's own object (copy mode); own says that it is (in-place mode), *)
(* and then executor.groupby partitions _df as mutated so far.             *)
step4_compute_open_liq(_df, own, ex) ==
    LET d1 == SetColumn(_df, "open_liq", None)
        by == <<"lkid", "ticker">>
    IN  step4_loop(d1, groupby(IF own THEN d1 ELSE ex, by))

(***************************************************************************)
(* Stage 5                                                                 *)
(***************************************************************************)
(* Decimal / Decimal under the default context, which traps a zero         *)
(* divisor: x / 0 raises DivisionByZero and 0 / 0 raises InvalidOperation. *)
decimal_div_error(a, b) ==
    IF b # 0 THEN "none"
    ELSE IF a = 0 THEN "InvalidOperation" ELSE "DivisionByZero"

(* _date_df["pal"] / total_daily_fund, element by element: the error of    *)
(* the first element that raises, "none" when none does.                   *)
RECURSIVE series_div_error(_, _)
series_div_error(cells, total) ==
    IF cells = <<>> THEN "none"
    ELSE IF decimal_div_error(Val(Head(cells)), total) # "none"
         THEN decimal_div_error(Val(Head(cells)), total)
         ELSE series_div_error(Tail(cells), total)

(* One pass of the loop over the date groups: [err, df], df being _df as   *)
(* the loop left it (when a division raises, the updates of the earlier    *)
(* dates are already in _df).                                              *)
RECURSIVE step5_loop(_, _)
step5_loop(_df, groups) ==
    IF groups = <<>> THEN [err |-> "none", df |-> _df]
    ELSE LET _date_df == Head(groups)
             total_daily_fund == agg_sum(_date_df, "open_liq")
             e == series_div_error(Column(_date_df, "pal"), total_daily_fund)
             withReturn ==
                 AssignColumn(_date_df, "return",
                     [i \in Pos(_date_df) |->
                        Cell(Frac(Val(_date_df.rows[i]["pal"]), total_daily_fund))])
         IN  IF e # "none" THEN [err |-> e, df |-> _df]
             ELSE step5_loop(update(_df, withReturn), Tail(groups))

step5_compute_fund_value(_df, own, ex) ==
    LET d1 == SetColumn(set_index(_df, "index"), "return", None)
        by == <<"date">>
    IN  step5_loop(d1, groupby(IF own THEN d1 ELSE ex, by))

(***************************************************************************)
(* Stage 6                                                                 *)
(***************************************************************************)
(* groupby(["date", "lkid"], as_index=False).agg(...): one row per group,  *)
(* groups in ascending (date, lkid) order, under a fresh RangeIndex.       *)
another_df(df) ==
    LET by == <<"date", "lkid">>
        gs == groupby(df, by)
    IN  [cols |-> {"date", "lkid", "analyst", "sector", "pal", "exposure",
                   "return", "index"},
         idx  |-> RangeIndex(Len(gs)),
         rows |-> [n \in DOMAIN gs |->
                     [date     |-> gs[n].rows[1]["date"],
                      lkid     |-> gs[n].rows[1]["lkid"],
                      analyst  |-> Cell(first_alphabetical(gs[n], "analyst")),
                      sector   |-> Cell(first_alphabetical(gs[n], "sector")),
                      pal      |-> Cell(agg_sum(gs[n], "pal")),
                      exposure |-> Cell(agg_sum(gs[n], "exposure")),
                      return   |-> Cell(agg_frac_sum(gs[n], "return")),
                      index    |-> Cell(get_first_index_label(gs[n]))]]]

(* The dataset after _df.update(another_df), indexed by row_index.         *)
step6_merged(_df) ==
    LET d0 == reset_index(_df)
        d1 == SetColumn(SetColumn(SetColumn(d0, "pal", None), "exposure", None),
                        "return", None)
        d2 == set_index(d1, "index")
    IN  update(d2, another_df(d0))

(* The row order of sort_index on an index (date, lkid).                   *)
SortLessDateFirst(df, i, j) ==
    LET a == <<Val(df.rows[i]["date"]), Ord(Val(df.rows[i]["lkid"]))>>
        b == <<Val(df.rows[j]["date"]), Ord(Val(df.rows[j]["lkid"]))>>
    IN  a[1] < b[1] \/ (a[1] = b[1] /\ a[2] < b[2])
        \/ (a = b /\ i < j)

(* The row order of sort_index on the index (lkid, date).                  *)
SortLess(df, i, j) ==
    LET a == <<Ord(Val(df.rows[i]["lkid"])), Val(df.rows[i]["date"])>>
        b == <<Ord(Val(df.rows[j]["lkid"])), Val(df.rows[j]["date"])>>
    IN  a[1] < b[1] \/ (a[1] = b[1] /\ a[2] < b[2])
        \/ (a = b /\ i < j)

RECURSIVE SortPos(_, _)
SortPos(df, P) ==
    IF P = {} THEN <<>>
    ELSE LET m == CHOOSE i \in P : \A j \in P \ {i} : SortLess(df, i, j)
         IN  <<m>> \o SortPos(df, P \ {m})

(* dropna, then set_index(["lkid", "date"]) and sort_index: the surviving  *)
(* rows in output order, still labelled by row_index.                      *)
step6_sorted(_df) ==
    LET m  == step6_merged(_df)
        ps == SortPos(m, NotNullPos(m))
    IN  [cols |-> m.cols,
         idx  |-> [j \in DOMAIN ps |-> m.idx[ps[j]]],
         rows |-> [j \in DOMAIN ps |-> m.rows[ps[j]]]]

(* The final reset_index puts lkid and date back as columns under a fresh  *)
(* RangeIndex; row_index is gone with the index that set_index replaced.   *)
step6_agg_daily(_df) ==
    [step6_sorted(_df) EXCEPT !.idx = RangeIndex(Len(@))]

(***************************************************************************)
(* df_task, Pipeline, PandasExecutor, BlotterCLI.main                      *)
(***************************************************************************)
VARIABLES
    input,      \* the frame read_csv built, as constructed (never changes)
    heap,       \* the DataFrame object the executor holds: object id -> frame
    nextId,     \* the id of the next object to be created
    exec,       \* executor._df: an object id
    eager,      \* executor.__is_eager
    steps,      \* pipeline.steps
    pc,         \* position of Pipeline.run's loop in steps
    status,     \* "running", "done" (run returned), "failed" (run raised), "written"
    error,      \* the exception that ended the run, "none" otherwise
    calls,      \* the stages invoked so far, in order
    passed,     \* the object id each invoked stage was handed by transform
    returned,   \* the object id each completed stage returned
    updates,    \* the object ids update_df was called with
    kept,       \* the row_index of each row stage 6 left, in output order
    output      \* the rows to_csv wrote, None while nothing is written

vars == <<input, heap, nextId, exec, eager, steps, pc, status, error, calls,
          passed, returned, updates, kept, output>>

PIPELINE_STEPS ==
    << "step1_create_pk", "step2_sector_pal_date", "step3_impute_ticker",
       "step4_compute_open_liq", "step5_compute_fund_value", "step6_agg_daily" >>

(* The input rows.  Book A holds the securities X and Y, book B holds X; a  *)
(* security has one analyst and one sector, and its pal and end-of-day     *)
(* exposure are given per day.                                             *)
Holdings == {<<"A", "X">>, <<"A", "Y">>, <<"B", "X">>}
Dates == 1..MaxDate
Analyst(t) == IF t = "X" THEN "b" ELSE "a"
Sector(t) == IF t = "X" THEN "Technology" ELSE "Materials"
Pal(t, d) == IF t = "X" THEN 1 ELSE 2
Exposure(t, d) == IF t = "X" THEN d ELSE d + 4

InputRow(l, t, d) ==
    [date |-> Cell(d), lkid |-> Cell(l), ticker |-> Cell(t),
     analyst |-> Cell(Analyst(t)), sector |-> Cell(Sector(t)),
     pal |-> Cell(Pal(t, d)), exposure |-> Cell(Exposure(t, d))]
InputRows == {InputRow(h[1], h[2], d) : h \in Holdings, d \in Dates}

(* pandas.read_csv: the rows in file order under a RangeIndex.             *)
read_csv(rows) ==
    [cols |-> {"date", "lkid", "ticker", "analyst", "sector", "pal", "exposure"},
     idx  |-> RangeIndex(Len(rows)),
     rows |-> rows]

InputFrames(n) == {read_csv(rows) : rows \in UNION {[1..k -> InputRows] : k \in 1..n}}

(* No identity check at all.                                               *)
wrap_context_unchecked(_eager, result, df) == FALSE

(* if _eager and result is not df: raise RuntimeError                      *)
wrap_context_raises(_eager, result, df) == _eager /\ result # df

(* if executor.is_eager(): continue                                        *)
skips_update(is_eager) == is_eager

(* An update_df that leaves executor._df alone.                            *)
update_df_dropped(cur, df) == cur

(* PandasExecutor.update_df: the new value of executor._df.                *)
update_df(cur, df) == df

(* transform(executor, step) through df_task.wrap_context, then the rest   *)
(* of the loop body of Pipeline.run.  r is what the stage function did:    *)
(* r.err the exception it raised ("none": it returned), r.df the frame of  *)
(* the object it was handed as that object is afterwards, r.rebinds        *)
(* whether it returned an object of its own making, r.out that object's    *)
(* frame.                                                                  *)
RunStep(name, r) ==
    /\ status = "running"
    /\ pc <= Len(steps)
    /\ steps[pc] = name
    /\ LET df     == exec
           arg    == IF eager THEN df ELSE nextId
           made   == (IF eager THEN 0 ELSE 1) + (IF r.rebinds THEN 1 ELSE 0)
           result == IF r.rebinds THEN nextId + made - 1 ELSE arg
           e      == IF r.err # "none" THEN r.err
                     ELSE IF wrap_context_raises(eager, result, df)
                          THEN "RuntimeError" ELSE "none"
           content == IF r.rebinds THEN r.out ELSE r.df
           swap   == e = "none" /\ ~skips_update(eager)
           exec2  == IF swap THEN update_df(exec, result) ELSE exec
       IN  /\ calls' = Append(calls, name)
           /\ passed' = Append(passed, df)
           /\ nextId' = nextId + made
           /\ error' = e
           /\ returned' = IF e = "none" THEN Append(returned, result) ELSE returned
           /\ updates' = IF swap THEN Append(updates, result) ELSE updates
           /\ exec' = exec2
           /\ heap' = [i \in {exec2} |->
                         IF i = result /\ ~eager THEN content
                         ELSE IF i = df /\ eager THEN r.df
                         ELSE heap[i]]
           /\ status' = IF e # "none" THEN "failed"
                        ELSE IF pc = Len(steps) THEN "done" ELSE "running"
           /\ pc' = IF e = "none" THEN pc + 1 ELSE pc
    /\ UNCHANGED <<input, eager, steps, output>>

(* _df = _df.copy(); return _df: the stage returns an object of its own.   *)
ReturnsFresh(df) == [err |-> "none", df |-> df, rebinds |-> TRUE, out |-> df]

(* return _df: the stage returns the object it was handed.                 *)
Returns(df) == [err |-> "none", df |-> df, rebinds |-> FALSE, out |-> df]

(* step5_compute_fund_value returns _df unless a division raised.          *)
ReturnsOrRaises(r) == [err |-> r.err, df |-> r.df, rebinds |-> FALSE, out |-> r.df]

(* A stage handed an object whose frame is df that returns an object of    *)
(* its own making, as in df = df.reset_index(drop=True); return df of the  *)
(* adapter's error text.                                                   *)
rebind(df) == [err |-> "none", df |-> df, rebinds |-> TRUE, out |-> df]

(* Each stage is handed the executor's frame; in in-place mode it is the   *)
(* executor's own object, in copy mode a copy of it.                       *)
Step1 ==
    /\ RunStep("step1_create_pk", Returns(step1_create_pk(heap[exec])))
    /\ UNCHANGED kept

Step2 ==
    /\ RunStep("step2_sector_pal_date", Returns(step2_sector_pal_date(heap[exec])))
    /\ UNCHANGED kept

Step3 ==
    /\ RunStep("step3_impute_ticker", Returns(step3_impute_ticker(heap[exec])))
    /\ UNCHANGED kept

Step4 ==
    /\ RunStep("step4_compute_open_liq",
               Returns(step4_compute_open_liq(heap[exec], eager, heap[exec])))
    /\ UNCHANGED kept

Step5 ==
    /\ RunStep("step5_compute_fund_value",
               ReturnsOrRaises(step5_compute_fund_value(heap[exec], eager, heap[exec])))
    /\ UNCHANGED kept

Step6 ==
    /\ RunStep("step6_agg_daily", Returns(step6_agg_daily(heap[exec])))
    /\ kept' = step6_sorted(heap[exec]).idx

Rebind ==
    /\ RunStep("rebind", rebind(heap[exec]))
    /\ UNCHANGED kept

(* BlotterCLI.main after blottertool.run(): to_csv of the executor's       *)
(* frame, the seven output columns.                                        *)
OutputColumns == {"lkid", "date", "analyst", "sector", "pal", "exposure", "return"}
to_csv(df) == [i \in Pos(df) |-> [k \in OutputColumns |-> df.rows[i][k]]]

WriteCsv ==
    /\ status = "done"
    /\ status' = "written"
    /\ output' = Cell(to_csv(heap[exec]))
    /\ UNCHANGED <<input, heap, nextId, exec, eager, steps, pc, error, calls,
                   passed, returned, updates, kept>>

InitWith(frames, pipelines) ==
    /\ input \in frames
    /\ heap = [i \in {1} |-> input]
    /\ nextId = 2
    /\ exec = 1
    /\ eager \in BOOLEAN
    /\ steps \in pipelines
    /\ pc = 1
    /\ status = "running"
    /\ error = "none"
    /\ calls = <<>>
    /\ passed = <<>>
    /\ returned = <<>>
    /\ updates = <<>>
    /\ kept = <<>>
    /\ output = None

Init == InitWith(InputFrames(MaxRows), {PIPELINE_STEPS})

Next == Step1 \/ Step2 \/ Step3 \/ Step4 \/ Step5 \/ Step6 \/ WriteCsv

Spec == Init /\ [][Next]_vars

(* The driver with any list of stages: the six stages with, possibly, a    *)
(* rebinding stage somewhere among them.                                   *)
PipeRows == 1
InsertAt(s, p, x) == SubSeq(s, 1, p) \o <<x>> \o SubSeq(s, p + 1, Len(s))
Pipelines ==
    {PIPELINE_STEPS} \cup {InsertAt(PIPELINE_STEPS, p, "rebind") : p \in 0..Len(PIPELINE_STEPS)}

(* A file without a ticker column.                                         *)
WithoutTicker(df) ==
    [df EXCEPT !.cols = @ \ {"ticker"},
               !.rows = [i \in Pos(df) |->
                           [k \in df.cols \ {"ticker"} |-> df.rows[i][k]]]]

InitPipe ==
    InitWith(InputFrames(PipeRows)
                 \cup {WithoutTicker(f) : f \in InputFrames(PipeRows)},
             Pipelines)

NextPipe == Next \/ Rebind

SpecPipe == InitPipe /\ [][NextPipe]_vars

(* What the stage function called name does when handed an object whose    *)
(* frame is df; own says that the object is the executor's own.            *)
StageResult(name, df, own) ==
    CASE name = "step1_create_pk" -> Returns(step1_create_pk(df))
      [] name = "step2_sector_pal_date" -> Returns(step2_sector_pal_date(df))
      [] name = "step3_impute_ticker" -> Returns(step3_impute_ticker(df))
      [] name = "step4_compute_open_liq" ->
             Returns(step4_compute_open_liq(df, own, df))
      [] name = "step5_compute_fund_value" ->
             ReturnsOrRaises(step5_compute_fund_value(df, own, df))
      [] name = "step6_agg_daily" -> Returns(step6_agg_daily(df))
      [] name = "rebind" -> rebind(df)

(* Pipeline.run as a function of the frames: the stages of ss in order on  *)
(* an executor that holds df; [err, df], df the executor's frame at the    *)
(* end.                                                                    *)
RECURSIVE run(_, _, _)
run(ss, is_eager, df) ==
    IF ss = <<>> THEN [err |-> "none", df |-> df]
    ELSE LET r == StageResult(Head(ss), df, is_eager)
             e == IF r.err # "none" THEN r.err
                  ELSE IF is_eager /\ r.rebinds THEN "RuntimeError" ELSE "none"
             result == IF r.rebinds THEN r.out ELSE r.df
             held == IF is_eager THEN r.df ELSE df
         IN  IF e # "none" THEN [err |-> e, df |-> held]
             ELSE run(Tail(ss), is_eager,
                      IF skips_update(is_eager) THEN held ELSE update_df(held, result))

(***************************************************************************)
(* Properties                                                              *)
(***************************************************************************)
(* The stage called name is the latest invoked, and it returned.           *)
AfterStage(name) ==
    /\ calls # <<>>
    /\ calls[Len(calls)] = name
    /\ Len(returned) = Len(calls)

(* The frame the executor held when the latest stage was invoked: what the *)
(* stages before it made of the input.                                     *)
Prev == run(SubSeq(calls, 1, Len(calls) - 1), eager, input).df

PartRows(df, l, t, d) ==
    {i \in Pos(df) : /\ Val(df.rows[i]["lkid"]) = l
                     /\ Val(df.rows[i]["ticker"]) = t
                     /\ Val(df.rows[i]["date"]) = d}
ColSum(df, P, c) ==
    LET ps == SortedSeq(P)
    IN  SumSeq([j \in DOMAIN ps |-> Val(df.rows[ps[j]][c])])
CellAt(df, ri, c) ==
    df.rows[CHOOSE i \in Pos(df) : Val(df.rows[i]["index"]) = ri][c]

(* For row i of the frame p: its date, the rows of its (lkid, ticker)      *)
(* partition dated d, the dates of that partition, and the partition's     *)
(* summed exposure and pal on d.                                           *)
DateOf(p, i) == Val(p.rows[i]["date"])
RowsOn(p, i, d) ==
    PartRows(p, Val(p.rows[i]["lkid"]), Val(p.rows[i]["ticker"]), d)
DatesWith(p, i) ==
    {Val(p.rows[j]["date"]) :
        j \in {k \in Pos(p) : /\ p.rows[k]["lkid"] = p.rows[i]["lkid"]
                              /\ p.rows[k]["ticker"] = p.rows[i]["ticker"]}}
LaterDates(p, i) == {d \in DatesWith(p, i) : d > DateOf(p, i)}
ExposureOn(p, i, d) == ColSum(p, RowsOn(p, i, d), "exposure")
PalOn(p, i, d) == ColSum(p, RowsOn(p, i, d), "pal")

(* The open_liq stage 4 left in df for the date of row i of the frame p it *)
(* was given: the cell of the row that stands for the rows of that         *)
(* partition and date, the one with the smallest row_index.                *)
OpenLiqOfDate(df, p, i) ==
    CellAt(df, Min({Val(p.rows[j]["index"]) : j \in RowsOn(p, i, DateOf(p, i))}),
           "open_liq")

DateLkidPairs(df) ==
    {<<Val(df.rows[i]["date"]), Val(df.rows[i]["lkid"])>> : i \in Pos(df)}

(* C3: the number of rows stage 6 leaves is the number of distinct         *)
(* (date, lkid) pairs of the frame it was given, also when several rows    *)
(* share one (lkid, ticker, date).                                         *)
C3_OneRowPerDateLkid ==
    AfterStage("step6_agg_daily") =>
        NRows(heap[exec]) = Cardinality(DateLkidPairs(Prev))

(* The total fund value of date d in df: the sum of open_liq over its rows.*)
FundValue(df, d) ==
    LET P == {i \in Pos(df) : /\ Val(df.rows[i]["date"]) = d
                              /\ ~IsNull(df.rows[i]["open_liq"])}
    IN  ColSum(df, P, "open_liq")

(* C4: when stage 5 meets a date whose total fund value is zero, no error  *)
(* is raised, the run goes on, and every row of that date has a            *)
(* not-a-number return.                                                    *)
C4_ZeroFundValueGivesNaN ==
    (calls # <<>> /\ calls[Len(calls)] = "step5_compute_fund_value") =>
        /\ status # "failed"
        /\ error = "none"
        /\ LET p == Prev
           IN  \A i \in Pos(p) :
                  FundValue(p, DateOf(p, i)) = 0 =>
                      IsNull(heap[exec].rows[i]["return"])

Invoked(name) == \E n \in DOMAIN calls : calls[n] = name

(* C5: in in-place mode a stage that returns another object than the one   *)
(* it was handed ends the run with the adapter's RuntimeError at that      *)
(* stage: no later stage is invoked and nothing is written; in copy mode   *)
(* no such error is raised.                                                *)
C5_RebindFailsInPlaceOnly ==
    /\ (eager /\ Invoked("rebind")) =>
          /\ status = "failed"
          /\ error = "RuntimeError"
          /\ calls[Len(calls)] = "rebind"
          /\ output = None
    /\ ~eager => error # "RuntimeError"

(* In in-place mode a rebinding stage that has stages after it was invoked.*)
C5_Witness ==
    /\ eager
    /\ Invoked("rebind")
    /\ Len(calls) < Len(steps)
    /\ error = "RuntimeError"

(* The row_index of each row of df, in row order: the column "index", or   *)
(* the index once stage 5 has moved it there.                              *)
RowIndexOf(df) ==
    IF "index" \in df.cols THEN [i \in Pos(df) |-> Val(df.rows[i]["index"])]
    ELSE df.idx

(* C6: once stage 1 has returned and until stage 6 is invoked, the rows of *)
(* the executor's dataset are as many as the input rows, and each row's    *)
(* row_index is its position in the input, hence unique.                   *)
C6_RowIndexStable ==
    (Len(returned) >= 1 /\ ~Invoked("step6_agg_daily")) =>
        LET df == heap[exec]
        IN  /\ NRows(df) = NRows(input)
            /\ RowIndexOf(df) = RangeIndex(NRows(input))
            /\ \A i, j \in Pos(df) : RowIndexOf(df)[i] = RowIndexOf(df)[j] => i = j

(* Stage 5 has returned on a dataset in which two rows share one           *)
(* (lkid, ticker, date).                                                   *)
C6_Witness ==
    /\ AfterStage("step5_compute_fund_value")
    /\ \E i \in Pos(input) : Cardinality(RowsOn(input, i, DateOf(input, i))) >= 2

LkidDateBefore(df, i, j) ==
    \/ Ord(Val(df.rows[i]["lkid"])) < Ord(Val(df.rows[j]["lkid"]))
    \/ /\ df.rows[i]["lkid"] = df.rows[j]["lkid"]
       /\ Val(df.rows[i]["date"]) < Val(df.rows[j]["date"])

(* C7: the dataset stage 6 leaves is in ascending (lkid, date) order, lkid *)
(* first, and no two of its rows have the same (lkid, date).               *)
C7_SortedByLkidDate ==
    AfterStage("step6_agg_daily") =>
        \A i, j \in Pos(heap[exec]) :
            i < j => LkidDateBefore(heap[exec], i, j)

(* Stage 6 has left a row with a later date before a row with an earlier   *)
(* date, the first of the smaller lkid.                                    *)
C7_Witness ==
    /\ AfterStage("step6_agg_daily")
    /\ \E i, j \in Pos(heap[exec]) :
          /\ i < j
          /\ Val(heap[exec].rows[i]["date"]) > Val(heap[exec].rows[j]["date"])

(* C8: the stages are invoked in list order, each once, each after the one *)
(* before it returned and each handed the executor's dataset of the        *)
(* moment; in copy mode update_df is called once per returned stage with   *)
(* the object that stage returned, which the executor then holds; in       *)
(* in-place mode update_df is never called and the executor holds the      *)
(* object it was built with.                                               *)
C8_StagesInOrder ==
    /\ Len(calls) <= Len(steps)
    /\ calls = SubSeq(steps, 1, Len(calls))
    /\ status \in {"done", "written"} => calls = steps
    /\ Len(returned) = IF status = "failed" THEN Len(calls) - 1 ELSE Len(calls)
    /\ \A n \in DOMAIN passed :
          passed[n] = IF eager \/ n = 1 THEN 1 ELSE returned[n - 1]
    /\ IF eager
       THEN updates = <<>> /\ exec = 1
       ELSE /\ updates = returned
            /\ exec = IF returned = <<>> THEN 1 ELSE returned[Len(returned)]

(* A copy-mode run of seven stages has returned.                           *)
C8_Witness ==
    /\ ~eager
    /\ status = "done"
    /\ Len(steps) = Len(PIPELINE_STEPS) + 1
    /\ Len(updates) = Len(steps)

GroupOf(df, i) ==
    {j \in Pos(df) : /\ df.rows[j]["date"] = df.rows[i]["date"]
                     /\ df.rows[j]["lkid"] = df.rows[i]["lkid"]}

(* The smallest row_index of the (date, lkid) group of row i of the frame  *)
(* p stage 6 was given, whose index is the row_index.                      *)
Representative(p, i) == Min({p.idx[j] : j \in GroupOf(p, i)})

(* C9: the rows stage 6 leaves are exactly those whose row_index is the    *)
(* smallest of their (date, lkid) group, and each carries the (date, lkid) *)
(* and the summed pal of the group it represents.                          *)
C9_RepresentativesSurvive ==
    AfterStage("step6_agg_daily") =>
        LET p == Prev
            df == heap[exec]
        IN  /\ {kept[n] : n \in DOMAIN kept} = {Representative(p, i) : i \in Pos(p)}
            /\ \A n \in DOMAIN kept :
                  \E i \in Pos(p) :
                     /\ p.idx[i] = kept[n]
                     /\ Representative(p, i) = kept[n]
                     /\ df.rows[n]["date"] = p.rows[i]["date"]
                     /\ df.rows[n]["lkid"] = p.rows[i]["lkid"]
                     /\ Val(df.rows[n]["pal"]) = ColSum(p, GroupOf(p, i), "pal")

(* C10: a run of the six stages ends as the run in the other mode on the   *)
(* same input does: both fail or neither does, and when they return the    *)
(* executors hold equal datasets.                                          *)
C10_ModesAgree ==
    status \in {"done", "failed"} =>
        LET other == run(steps, ~eager, input)
        IN  /\ (status = "failed") <=> (other.err # "none")
            /\ status = "done" => heap[exec] = other.df

(* A copy-mode run on an input in which two rows share one                 *)
(* (lkid, ticker, date) has returned.                                      *)
C10_Witness ==
    /\ ~eager
    /\ status = "done"
    /\ \E i, j \in Pos(input) : i # j /\ input.rows[i] = input.rows[j]

(* C11: end to end, every (date, lkid) pair of the input has an output row  *)
(* whose pal and exposure are the sums of the input pal and exposure of    *)
(* all input rows of that pair, each input row counted once.               *)
C11_InputSumsPreserved ==
    AfterStage("step6_agg_daily") =>
        LET df == heap[exec]
        IN  \A i \in Pos(input) :
               \E n \in Pos(df) :
                  /\ df.rows[n]["date"] = input.rows[i]["date"]
                  /\ df.rows[n]["lkid"] = input.rows[i]["lkid"]
                  /\ Val(df.rows[n]["pal"]) = ColSum(input, GroupOf(input, i), "pal")
                  /\ Val(df.rows[n]["exposure"]) =
                         ColSum(input, GroupOf(input, i), "exposure")

====
